---- MODULE Spec2Model ----
(***************************************************************************)
(* Image quality assessment (qualityCheck): analyzeImageQuality and the    *)
(* helpers it calls.  One call of analyzeImageQuality is modelled from the *)
(* moment it is invoked with a payload and an optional face box until it   *)
(* returns a QualityMetrics record.                                        *)
(*                                                                         *)
(* Numbers that the code keeps as JavaScript doubles are exact rationals   *)
(* here: a record [num, den] with den > 0.  Pixel samples are integers     *)
(* 0..255 in a flat RGBA row-major sequence, as in ImageData.data.         *)
(***************************************************************************)
EXTENDS Integers, Sequences, FiniteSets, TLC

(***************************************************************************)
(* Bounds of the input space.                                              *)
(***************************************************************************)
MaxW == 4
MaxH == 3
\* width of the one wide image of the input space (a uniform gray strip)
WideW == 300

(***************************************************************************)
(* Exact rational arithmetic.                                              *)
(***************************************************************************)
R(n) == [num |-> n, den |-> 1]
Q(n, d) == [num |-> n, den |-> d]
Floor(r) == r.num \div r.den
Plus(a, b) == [num |-> a.num * b.den + b.num * a.den, den |-> a.den * b.den]
Geq(r, n) == r.num >= n * r.den
Leq(r, n) == r.num <= n * r.den
Gt(r, n) == r.num > n * r.den
Same(a, b) == a.num * b.den = b.num * a.den
LeqR(a, b) == a.num * b.den <= b.num * a.den
Falsy(r) == r.num = 0
Max(a, b) == IF a >= b THEN a ELSE b
Min(a, b) == IF a <= b THEN a ELSE b
Abs(n) == IF n < 0 THEN 0 - n ELSE n

\* f[lo] + ... + f[hi], the total a counting loop from lo to hi accumulates
RECURSIVE SumRange(_, _, _)
SumRange(lo, hi, f) ==
  IF lo > hi THEN 0
  ELSE IF lo = hi THEN f[lo]
  ELSE LET mid == (lo + hi) \div 2
       IN SumRange(lo, mid, f) + SumRange(mid + 1, hi, f)

\* the total of f[<<x, y>>] over the nested loops y in ylo..yhi, x in xlo..xhi
SumLoops(xlo, xhi, ylo, yhi, f) ==
  SumRange(ylo, yhi,
           [y \in ylo..yhi |-> SumRange(xlo, xhi, [x \in xlo..xhi |-> f[<<x, y>>]])])

(***************************************************************************)
(* Types and thresholds.                                                   *)
(***************************************************************************)
QualityLevel == {"High", "Medium", "Low"}

\* variant: the sharpness thresholds are a tenth of the documented ones
QUALITY_THRESHOLDS_SharpnessTypo ==
  [faceSize  |-> [high |-> 200, medium |-> 120],
   sharpness |-> [high |-> 100, medium |-> 50],
   lighting  |-> [high |-> [min |-> 80, max |-> 180],
                  medium |-> [min |-> 50, max |-> 220]]]

QUALITY_THRESHOLDS ==
  [faceSize  |-> [high |-> 200, medium |-> 120],
   sharpness |-> [high |-> 1000, medium |-> 500],
   lighting  |-> [high |-> [min |-> 80, max |-> 180],
                  medium |-> [min |-> 50, max |-> 220]]]

\* undefined (an absent face box, a variable not yet assigned)
None == [undefined |-> TRUE]
\* a payload that is no decodable image
Bad == [invalid |-> TRUE]

(***************************************************************************)
(* Inputs: decodable payloads are images painted from a base colour and    *)
(* two marked pixels at (1,1) and (2,1); a payload may also be undecodable.*)
(***************************************************************************)
G(g) == <<g, g, g, 255>>

Paints ==
  { <<G(c), G(c), G(c)>> : c \in {49, 50, 80, 128, 180, 219, 220, 221, 255} }
  \cup { <<G(b), G(b + d), G(b)>> : b \in {10, 60, 100}, d \in {7, 50} }
  \cup { <<G(0), G(12), G(8)>>,
         <<G(0), <<9, 9, 8, 255>>, <<5, 5, 4, 255>> >>,
         << <<200, 100, 0, 128>>, <<0, 0, 255, 0>>, <<30, 220, 90, 7>> >> }

PixelOf(p, x, y) ==
  IF x = 1 /\ y = 1 THEN p[2] ELSE IF x = 2 /\ y = 1 THEN p[3] ELSE p[1]

\* the flat RGBA row-major sample sequence; sample i of the code is data[i + 1]
DataOf(p, w, h) ==
  [i \in 1..(w * h * 4) |->
     LET k == (i - 1) \div 4
     IN PixelOf(p, k % w, k \div w)[((i - 1) % 4) + 1]]

Images ==
  { [width |-> w, height |-> h, data |-> DataOf(p, w, h)] :
      w \in 1..MaxW, h \in 1..MaxH, p \in Paints }
  \cup { [width |-> WideW, height |-> MaxH,
          data |-> DataOf(<<G(128), G(128), G(128)>>, WideW, MaxH)] }

Payloads == Images \cup {Bad}

Box(x2, y2, w2, h2) ==
  [x |-> Q(x2, 2), y |-> Q(y2, 2), width |-> Q(w2, 2), height |-> Q(h2, 2)]

FaceBoxes ==
  { Box(0, 0, w2, h2) : w2 \in {238, 239, 240, 398, 400}, h2 \in {2, 600} }
  \cup { Box(x2, y2, w2, h2) :
           x2 \in {-3, 1, 14}, y2 \in {-2, 0}, w2 \in {0, 2, 5, 6}, h2 \in {0, 6} }
  \cup { Box(-3, -2, 12, 10) }

VARIABLES payload, faceBox, pc, promise, handler, imageDataObj, result

vars == <<payload, faceBox, pc, promise, handler, imageDataObj, result>>

\* Several calls in flight at once (used by SpecOverlap only):
\*   calls       the state of each call, a record with the fields of one call
\*   qualityThresholds  the module-level QUALITY_THRESHOLDS object all calls read
VARIABLES calls, qualityThresholds

overlapVars == <<calls, qualityThresholds>>

\* faceApi.ts (used by SpecLoad and SpecLoadFair only):
\*   modelsLoaded, modelsLoading  the two module-level flags
\*   callers   the state of each caller of loadModels
\*   loads     the load attempts started so far, each the state of its two
\*             loadFromUri promises
\*   nCalls    the number of loadModels calls made so far
VARIABLES modelsLoaded, modelsLoading, callers, loads, nCalls

faceApiVars == <<modelsLoaded, modelsLoading, callers, loads, nCalls>>

\* faceApi.ts before any call
NoFaceApi ==
  /\ modelsLoaded = FALSE
  /\ modelsLoading = FALSE
  /\ callers = <<>>
  /\ loads = <<>>
  /\ nCalls = 0

\* EasyFaceCapture.tsx (used by SpecEasy only):
\*   status, currentStep, capturedResults   the fields of the component state
\*                    the handlers read (a captured result is kept as its step)
\*   cameraStarts     startCamera invocations awaiting the camera
\*   startCaptures    startCapture invocations awaiting loadModels
\*   pendingCaptures  captureCurrentPose invocations awaiting detectFace, each
\*                    the state.currentStep and state.capturedResults its
\*                    closure was created with
\*   completions      the arguments of the onCaptureComplete calls made since
\*                    the capture run began
VARIABLES status, currentStep, capturedResults, cameraStarts, startCaptures,
          pendingCaptures, completions

easyVars == <<status, currentStep, capturedResults, cameraStarts, startCaptures,
              pendingCaptures, completions>>

\* EasyFaceCapture as mounted, nothing clicked
NoEasyCapture ==
  /\ status = "idle"
  /\ currentStep = 0
  /\ capturedResults = <<>>
  /\ cameraStarts = 0
  /\ startCaptures = 0
  /\ pendingCaptures = <<>>
  /\ completions = <<>>

\* IntegratedFaceCapture.tsx (used by SpecFlow only):
\*   flowStep   the component's currentStep state (a CaptureFlowStep)
\*   flowPc     the position of the handler or timer in flight
\*   nResults   results.length of the handleFaceCaptureComplete call
\*   imageIndex, successfulImages, failedImages   the locals i,
\*              successfulImages and failedImages of that call
\*   session    the capture session row of the database (None before it exists)
\*   savedImages  the face image rows saved for that session
VARIABLES flowStep, flowPc, nResults, imageIndex, successfulImages, failedImages,
          session, savedImages

flowVars == <<flowStep, flowPc, nResults, imageIndex, successfulImages, failedImages,
              session, savedImages>>

\* IntegratedFaceCapture as mounted
NoFlow ==
  /\ flowStep = "user_data"
  /\ flowPc = "form"
  /\ nResults = 0
  /\ imageIndex = 0
  /\ successfulImages = 0
  /\ failedImages = 0
  /\ session = None
  /\ savedImages = 0

componentVars == <<faceApiVars, easyVars, flowVars>>

NoOtherComponent == NoFaceApi /\ NoEasyCapture /\ NoFlow

(***************************************************************************)
(* Region of a computation: the loop bounds calculateSharpness and         *)
(* calculateBrightness derive from the image and the optional face box.    *)
(***************************************************************************)
\* variant: the box is ignored and the loops run over the whole image
Region_IgnoresBox(imageData, box) ==
  [startX |-> 0, startY |-> 0, endX |-> imageData.width, endY |-> imageData.height]

Region(imageData, box) ==
  IF box = None
  THEN [startX |-> 0, startY |-> 0,
        endX |-> imageData.width, endY |-> imageData.height]
  ELSE [startX |-> Max(0, Floor(box.x)),
        startY |-> Max(0, Floor(box.y)),
        endX |-> Min(imageData.width, Floor(Plus(box.x, box.width))),
        endY |-> Min(imageData.height, Floor(Plus(box.y, box.height)))]

\* data[idx], idx counted from 0 as in the code
Sample(imageData, idx) == imageData.data[idx + 1]

\* variant: the alpha sample is added to the grayscale value
Gray3_WithAlpha(imageData, x, y) ==
  LET idx == (y * imageData.width + x) * 4
  IN Sample(imageData, idx) + Sample(imageData, idx + 1) + Sample(imageData, idx + 2)
       + Sample(imageData, idx + 3)

\* three times the grayscale value (data[idx] + data[idx+1] + data[idx+2]) / 3
Gray3(imageData, x, y) ==
  LET idx == (y * imageData.width + x) * 4
  IN Sample(imageData, idx) + Sample(imageData, idx + 1) + Sample(imageData, idx + 2)

\* variant: the centre weight of the kernel is 5 instead of 4
Laplacian3_CenterWeightFive(imageData, x, y) ==
  Abs(5 * Gray3(imageData, x, y) - Gray3(imageData, x, y - 1)
      - Gray3(imageData, x, y + 1) - Gray3(imageData, x - 1, y)
      - Gray3(imageData, x + 1, y))

\* three times |4 * center - top - bottom - left - right|
Laplacian3(imageData, x, y) ==
  Abs(4 * Gray3(imageData, x, y) - Gray3(imageData, x, y - 1)
      - Gray3(imageData, x, y + 1) - Gray3(imageData, x - 1, y)
      - Gray3(imageData, x + 1, y))

\* the pixels the sharpness loops visit
SharpnessPixels(imageData, box) ==
  LET r == Region(imageData, box)
  IN { <<x, y>> \in ((r.startX + 1)..(r.endX - 2)) \X ((r.startY + 1)..(r.endY - 2)) : TRUE }

calculateSharpness(imageData, box) ==
  LET r == Region(imageData, box)
      px == SharpnessPixels(imageData, box)
      sq == [c \in px |-> Laplacian3(imageData, c[1], c[2]) * Laplacian3(imageData, c[1], c[2])]
      sum == SumLoops(r.startX + 1, r.endX - 2, r.startY + 1, r.endY - 2, sq)
      count == Cardinality(px)
  IN IF count > 0 THEN Q(sum, 9 * count) ELSE R(0)

\* variant: the blue weight is 0.144 instead of 0.114
Luminance1000_WeightTypo(imageData, x, y) ==
  LET idx == (y * imageData.width + x) * 4
  IN 299 * Sample(imageData, idx) + 587 * Sample(imageData, idx + 1)
       + 144 * Sample(imageData, idx + 2)

\* 1000 times the luminance 0.299 R + 0.587 G + 0.114 B
Luminance1000(imageData, x, y) ==
  LET idx == (y * imageData.width + x) * 4
  IN 299 * Sample(imageData, idx) + 587 * Sample(imageData, idx + 1)
       + 114 * Sample(imageData, idx + 2)

\* the pixels the brightness loops visit
BrightnessPixels(imageData, box) ==
  LET r == Region(imageData, box)
  IN { <<x, y>> \in (r.startX..(r.endX - 1)) \X (r.startY..(r.endY - 1)) : TRUE }

\* variant: an empty region falls back to the whole image
calculateBrightness_WholeImageWhenEmpty(imageData, box) ==
  LET boxed == BrightnessPixels(imageData, box)
      px == IF boxed = {} THEN (0..(imageData.width - 1)) \X (0..(imageData.height - 1))
            ELSE boxed
      lum == [c \in px |-> Luminance1000(imageData, c[1], c[2])]
      count == Cardinality(px)
      sum == IF boxed = {}
             THEN SumLoops(0, imageData.width - 1, 0, imageData.height - 1, lum)
             ELSE LET r == Region(imageData, box)
                  IN SumLoops(r.startX, r.endX - 1, r.startY, r.endY - 1, lum)
  IN IF count > 0 THEN Q(sum, 1000 * count) ELSE R(0)

\* variant: the outermost border of the region is left out of the mean
calculateBrightness_SkipsBorder(imageData, box) ==
  LET r == Region(imageData, box)
      px == SharpnessPixels(imageData, box)
      lum == [c \in px |-> Luminance1000(imageData, c[1], c[2])]
      sum == SumLoops(r.startX + 1, r.endX - 2, r.startY + 1, r.endY - 2, lum)
      count == Cardinality(px)
  IN IF count > 0 THEN Q(sum, 1000 * count) ELSE R(0)

calculateBrightness(imageData, box) ==
  LET r == Region(imageData, box)
      px == BrightnessPixels(imageData, box)
      lum == [c \in px |-> Luminance1000(imageData, c[1], c[2])]
      sum == SumLoops(r.startX, r.endX - 1, r.startY, r.endY - 1, lum)
      count == Cardinality(px)
  IN IF count > 0 THEN Q(sum, 1000 * count) ELSE R(0)

\* variant: the kernel is applied from the first to the last pixel of the region
SharpnessReads_NoMargin(imageData, box) ==
  UNION { { c, <<c[1], c[2] - 1>>, <<c[1], c[2] + 1>>, <<c[1] - 1, c[2]>>, <<c[1] + 1, c[2]>> } :
            c \in BrightnessPixels(imageData, box) }

\* the pixel coordinates calculateSharpness reads: each visited pixel and the
\* four neighbours the kernel takes
SharpnessReads(imageData, box) ==
  UNION { { c, <<c[1], c[2] - 1>>, <<c[1], c[2] + 1>>, <<c[1] - 1, c[2]>>, <<c[1] + 1, c[2]>> } :
            c \in SharpnessPixels(imageData, box) }

\* the pixel coordinates calculateBrightness reads
BrightnessReads(imageData, box) == BrightnessPixels(imageData, box)

\* the sample indexes (counted from 0) read at pixel c: data[idx], data[idx+1], data[idx+2]
SampleIndexes(imageData, c) ==
  { (c[2] * imageData.width + c[1]) * 4 + k : k \in 0..2 }

\* variant: strict comparisons, a value on a threshold falls to the level below
getQualityLevel_Strict(value, thresholds) ==
  IF Gt(value, thresholds.high) THEN "High"
  ELSE IF Gt(value, thresholds.medium) THEN "Medium"
  ELSE "Low"

getQualityLevel(value, thresholds) ==
  IF Geq(value, thresholds.high) THEN "High"
  ELSE IF Geq(value, thresholds.medium) THEN "Medium"
  ELSE "Low"

\* variant: the wider Medium range is tested before the High range
getLightingQualityLevel_MediumFirst(brightness, thresholds) ==
  IF Geq(brightness, thresholds.medium.min) /\ Leq(brightness, thresholds.medium.max)
  THEN "Medium"
  ELSE IF Geq(brightness, thresholds.high.min) /\ Leq(brightness, thresholds.high.max)
  THEN "High"
  ELSE "Low"

getLightingQualityLevel(brightness, thresholds) ==
  IF Geq(brightness, thresholds.high.min) /\ Leq(brightness, thresholds.high.max)
  THEN "High"
  ELSE IF Geq(brightness, thresholds.medium.min) /\ Leq(brightness, thresholds.medium.max)
  THEN "Medium"
  ELSE "Low"

\* variant: Medium is looked for before Low
calculateOverallQuality_MediumFirst(faceSizeLevel, sharpnessLevel, lightingLevel) ==
  LET levels == {faceSizeLevel, sharpnessLevel, lightingLevel}
  IN IF "Medium" \in levels THEN "Medium"
     ELSE IF "Low" \in levels THEN "Low"
     ELSE "High"

calculateOverallQuality(faceSizeLevel, sharpnessLevel, lightingLevel) ==
  LET levels == {faceSizeLevel, sharpnessLevel, lightingLevel}
  IN IF "Low" \in levels THEN "Low"
     ELSE IF "Medium" \in levels THEN "Medium"
     ELSE "High"

\* variant: the reported width is clamped to the image width
faceWidthOf_Clamped(imageData, box) ==
  IF box = None \/ Falsy(box.width) \/ ~ LeqR(box.width, R(imageData.width))
  THEN R(imageData.width)
  ELSE box.width

\* faceBox?.width || imageDataObj.width
faceWidthOf(imageData, box) ==
  IF box = None \/ Falsy(box.width) THEN R(imageData.width) ELSE box.width

\* faceBox?.height || imageDataObj.height
faceHeightOf(imageData, box) ==
  IF box = None \/ Falsy(box.height) THEN R(imageData.height) ELSE box.height

\* the record of the success path of analyzeImageQuality, reading the
\* thresholds from the object th
MetricsWith(imageData, box, th) ==
  LET faceWidth == faceWidthOf(imageData, box)
      faceHeight == faceHeightOf(imageData, box)
      faceSizeLevel == getQualityLevel(faceWidth, th.faceSize)
      sharpnessVariance == calculateSharpness(imageData, box)
      sharpnessLevel == getQualityLevel(sharpnessVariance, th.sharpness)
      brightness == calculateBrightness(imageData, box)
      lightingLevel == getLightingQualityLevel(brightness, th.lighting)
      overallLevel == calculateOverallQuality(faceSizeLevel, sharpnessLevel, lightingLevel)
  IN [faceSize  |-> [width |-> faceWidth, height |-> faceHeight, level |-> faceSizeLevel],
      sharpness |-> [variance |-> sharpnessVariance, level |-> sharpnessLevel],
      lighting  |-> [brightness |-> brightness, level |-> lightingLevel],
      overall   |-> overallLevel]

\* the record of the success path of analyzeImageQuality
Metrics(imageData, box) == MetricsWith(imageData, box, QUALITY_THRESHOLDS)

\* variant: the catch block returns only the overall level
FallbackMetrics_OverallOnly == [overall |-> "Low"]

\* the record of the catch block of analyzeImageQuality
FallbackMetrics ==
  [faceSize  |-> [width |-> R(0), height |-> R(0), level |-> "Low"],
   sharpness |-> [variance |-> R(0), level |-> "Low"],
   lighting  |-> [brightness |-> R(0), level |-> "Low"],
   overall   |-> "Low"]

(***************************************************************************)
(* Presentation helpers.  A string the code builds is the sequence of its  *)
(* pieces: the literal parts of the template, the level names, and the     *)
(* characters of each formatted number.  An icon is the sequence of its    *)
(* Unicode code points.                                                    *)
(***************************************************************************)
\* variant: the Medium case returns the High token
getQualityColor_MediumAsHigh(level) ==
  CASE level = "High" -> "text-green-600 bg-green-100"
    [] level = "Medium" -> "text-green-600 bg-green-100"
    [] level = "Low" -> "text-red-600 bg-red-100"
    [] OTHER -> "text-gray-600 bg-gray-100"

getQualityColor(level) ==
  CASE level = "High" -> "text-green-600 bg-green-100"
    [] level = "Medium" -> "text-yellow-600 bg-yellow-100"
    [] level = "Low" -> "text-red-600 bg-red-100"
    [] OTHER -> "text-gray-600 bg-gray-100"

getQualityIcon(level) ==
  CASE level = "High" -> <<9989>>
    [] level = "Medium" -> <<9888, 65039>>
    [] level = "Low" -> <<10060>>
    [] OTHER -> <<10067>>

DigitChars == <<"0", "1", "2", "3", "4", "5", "6", "7", "8", "9">>

\* the decimal digits of a natural number
RECURSIVE Digits(_)
Digits(n) ==
  IF n < 10 THEN <<DigitChars[n + 1]>>
  ELSE Digits(n \div 10) \o <<DigitChars[(n % 10) + 1]>>

\* Number to string as a template literal does it, for the numbers that are
\* integers or integers and a half
NumberToString(r) ==
  LET whole == Abs(r.num) \div r.den
      sign == IF r.num < 0 THEN <<"-">> ELSE <<>>
  IN CASE r.num % r.den = 0 -> sign \o Digits(whole)
       [] r.num % r.den # 0 /\ (2 * r.num) % r.den = 0 -> sign \o Digits(whole) \o <<".", "5">>

\* variant: Math.floor instead of Math.round
MathRound_Floor(r) == r.num \div r.den

\* Math.round: the nearest integer, a tie going up
MathRound(r) == (2 * r.num + r.den) \div (2 * r.den)

\* details.join(' | ')
RECURSIVE Join(_, _)
Join(parts, sep) ==
  IF Len(parts) = 0 THEN <<>>
  ELSE IF Len(parts) = 1 THEN parts[1]
  ELSE parts[1] \o <<sep>> \o Join(Tail(parts), sep)

getQualitySummary(metrics) ==
  LET details ==
        << <<"Face Size: ", metrics.faceSize.level, " (">>
             \o NumberToString(metrics.faceSize.width) \o <<"px)">>,
           <<"Sharpness: ", metrics.sharpness.level, " (">>
             \o NumberToString(R(MathRound(metrics.sharpness.variance))) \o <<")">>,
           <<"Lighting: ", metrics.lighting.level, " (">>
             \o NumberToString(R(MathRound(metrics.lighting.brightness))) \o <<")">> >>
  IN <<"Overall: ", metrics.overall, " | ">> \o Join(details, " | ")

(***************************************************************************)
(* One call of analyzeImageQuality(payload, faceBox).                      *)
(*   pc       "idle" before the call, "awaiting" at the await of           *)
(*            base64ToImageData, "returned" once the async function's      *)
(*            promise is fulfilled with result, "threw" if it is rejected  *)
(*   promise  the promise base64ToImageData returns                        *)
(*   handler  which image event handler has run, and how it ended          *)
(***************************************************************************)
Init ==
  /\ payload \in Payloads
  /\ faceBox \in FaceBoxes \cup {None}
  /\ pc = "idle"
  /\ promise = "none"
  /\ handler = "none"
  /\ imageDataObj = None
  /\ result = None
  /\ calls = <<>>
  /\ qualityThresholds = QUALITY_THRESHOLDS
  /\ NoOtherComponent

\* analyzeImageQuality runs up to its await: base64ToImageData creates the
\* promise, installs onload and onerror and assigns img.src
Call ==
  /\ pc = "idle"
  /\ pc' = "awaiting"
  /\ promise' = "pending"
  /\ UNCHANGED <<payload, faceBox, handler, imageDataObj, result>>
  /\ UNCHANGED <<overlapVars, componentVars>>

\* img.onerror: the payload does not decode
ImgOnError ==
  /\ pc = "awaiting" /\ handler = "none"
  /\ payload = Bad
  /\ handler' = "onerror"
  /\ promise' = "rejected"
  /\ UNCHANGED <<payload, faceBox, pc, imageDataObj, result>>
  /\ UNCHANGED <<overlapVars, componentVars>>

\* img.onload, canvas.getContext('2d') returns null
ImgOnLoadNoContext ==
  /\ pc = "awaiting" /\ handler = "none"
  /\ payload # Bad
  /\ handler' = "onload: no context"
  /\ promise' = "rejected"
  /\ UNCHANGED <<payload, faceBox, pc, imageDataObj, result>>
  /\ UNCHANGED <<overlapVars, componentVars>>

\* img.onload, ctx.drawImage throws: the exception leaves the event handler,
\* neither resolve nor reject is called
ImgOnLoadDrawThrows ==
  /\ pc = "awaiting" /\ handler = "none"
  /\ payload # Bad
  /\ handler' = "onload: drawImage threw"
  /\ UNCHANGED <<payload, faceBox, pc, promise, imageDataObj, result>>
  /\ UNCHANGED <<overlapVars, componentVars>>

\* img.onload, ctx.getImageData throws inside the try block
ImgOnLoadReadThrows ==
  /\ pc = "awaiting" /\ handler = "none"
  /\ payload # Bad
  /\ handler' = "onload: getImageData threw"
  /\ promise' = "rejected"
  /\ UNCHANGED <<payload, faceBox, pc, imageDataObj, result>>
  /\ UNCHANGED <<overlapVars, componentVars>>

\* img.onload, the pixels are read and the promise resolves with them
ImgOnLoadResolve ==
  /\ pc = "awaiting" /\ handler = "none"
  /\ payload # Bad
  /\ handler' = "onload: resolved"
  /\ promise' = "resolved"
  /\ imageDataObj' = payload
  /\ UNCHANGED <<payload, faceBox, pc, result>>
  /\ UNCHANGED <<overlapVars, componentVars>>

\* the await completes with the pixel buffer; the rest of the try block runs
ResumeResolved ==
  /\ pc = "awaiting" /\ promise = "resolved"
  /\ result' = Metrics(imageDataObj, faceBox)
  /\ pc' = "returned"
  /\ UNCHANGED <<payload, faceBox, promise, handler, imageDataObj>>
  /\ UNCHANGED <<overlapVars, componentVars>>

\* variant: the catch block rethrows instead of returning the default record
ResumeRejected_Rethrow ==
  /\ pc = "awaiting" /\ promise = "rejected"
  /\ pc' = "threw"
  /\ UNCHANGED <<payload, faceBox, promise, handler, imageDataObj, result>>
  /\ UNCHANGED <<overlapVars, componentVars>>

\* the await throws; the catch block returns the default record
ResumeRejected ==
  /\ pc = "awaiting" /\ promise = "rejected"
  /\ result' = FallbackMetrics
  /\ pc' = "returned"
  /\ UNCHANGED <<payload, faceBox, promise, handler, imageDataObj>>
  /\ UNCHANGED <<overlapVars, componentVars>>

Next ==
  \/ Call
  \/ ImgOnError
  \/ ImgOnLoadNoContext
  \/ ImgOnLoadDrawThrows
  \/ ImgOnLoadReadThrows
  \/ ImgOnLoadResolve
  \/ ResumeResolved
  \/ ResumeRejected

Spec == Init /\ [][Next]_vars

(***************************************************************************)
(* Overlapping calls.  A caller may invoke analyzeImageQuality again while *)
(* earlier calls are still waiting for their image to load.  Every call    *)
(* has its own Image, canvas, promise and locals; the calls share only the *)
(* module-level QUALITY_THRESHOLDS object.  An image event handler and     *)
(* the continuation of an await each run to completion, so they are the    *)
(* steps that interleave.                                                  *)
(***************************************************************************)
NCalls == 3

CallIds == 1..NCalls

Dotted == [width |-> 3, height |-> 3, data |-> DataOf(<<G(100), G(150), G(100)>>, 3, 3)]
Flat == [width |-> 3, height |-> 3, data |-> DataOf(<<G(128), G(128), G(128)>>, 3, 3)]

\* the arguments the overlapping calls are made with
OverlapInputs ==
  { [payload |-> Dotted, faceBox |-> None],
    [payload |-> Dotted, faceBox |-> Box(2, 0, 400, 600)],
    [payload |-> Flat, faceBox |-> None],
    [payload |-> Bad, faceBox |-> None] }

NewCall(in) ==
  [payload |-> in.payload, faceBox |-> in.faceBox, pc |-> "idle", promise |-> "none",
   handler |-> "none", imageDataObj |-> None, result |-> None]

\* the single call of Spec is not made in SpecOverlap
NoSingleCall ==
  /\ payload = Bad
  /\ faceBox = None
  /\ pc = "idle"
  /\ promise = "none"
  /\ handler = "none"
  /\ imageDataObj = None
  /\ result = None

InitOverlap ==
  /\ calls \in [CallIds -> { NewCall(in) : in \in OverlapInputs }]
  /\ qualityThresholds = QUALITY_THRESHOLDS
  /\ NoSingleCall
  /\ NoOtherComponent

\* call c runs up to its await
CallOf(c) ==
  /\ calls[c].pc = "idle"
  /\ calls' = [calls EXCEPT ![c].pc = "awaiting", ![c].promise = "pending"]
  /\ UNCHANGED qualityThresholds
  /\ UNCHANGED <<vars, componentVars>>

\* an image event handler of call c rejects the promise: img.onerror for an
\* undecodable payload; img.onload when there is no 2d context or when
\* getImageData throws
DecodeRejectsOf(c) ==
  /\ calls[c].pc = "awaiting" /\ calls[c].handler = "none"
  /\ \E cause \in {"onerror", "no context", "getImageData threw"} :
       (cause = "onerror") <=> (calls[c].payload = Bad)
  /\ calls' = [calls EXCEPT ![c].handler = "done", ![c].promise = "rejected"]
  /\ UNCHANGED qualityThresholds
  /\ UNCHANGED <<vars, componentVars>>

\* img.onload of call c ends with drawImage throwing: nothing settles
DecodeHangsOf(c) ==
  /\ calls[c].pc = "awaiting" /\ calls[c].handler = "none"
  /\ calls[c].payload # Bad
  /\ calls' = [calls EXCEPT ![c].handler = "threw"]
  /\ UNCHANGED qualityThresholds
  /\ UNCHANGED <<vars, componentVars>>

\* variant: one Image element is shared by all calls, so the load event
\* delivers the pixels of whichever started call assigned img.src last
DecodeResolvesOf_SharedImage(c) ==
  /\ calls[c].pc = "awaiting" /\ calls[c].handler = "none"
  /\ calls[c].payload # Bad
  /\ \E d \in CallIds :
       /\ calls[d].pc # "idle" /\ calls[d].payload # Bad
       /\ calls' = [calls EXCEPT ![c].handler = "done", ![c].promise = "resolved",
                                 ![c].imageDataObj = calls[d].payload]
  /\ UNCHANGED qualityThresholds
  /\ UNCHANGED <<vars, componentVars>>

\* img.onload of call c draws its own image on its own canvas and resolves
\* the promise with the pixels read back
DecodeResolvesOf(c) ==
  /\ calls[c].pc = "awaiting" /\ calls[c].handler = "none"
  /\ calls[c].payload # Bad
  /\ calls' = [calls EXCEPT ![c].handler = "done", ![c].promise = "resolved",
                            ![c].imageDataObj = calls[c].payload]
  /\ UNCHANGED qualityThresholds
  /\ UNCHANGED <<vars, componentVars>>

\* variant: the decoded buffer is kept in one module-level variable, so the
\* computation of call c may run on the buffer another call decoded
ResumeResolvedOf_SharedBuffer(c) ==
  /\ calls[c].pc = "awaiting" /\ calls[c].promise = "resolved"
  /\ \E d \in CallIds :
       /\ calls[d].promise = "resolved"
       /\ calls' = [calls EXCEPT
            ![c].result = MetricsWith(calls[d].imageDataObj, calls[c].faceBox, qualityThresholds),
            ![c].pc = "returned"]
  /\ UNCHANGED qualityThresholds
  /\ UNCHANGED <<vars, componentVars>>

\* variant: the face box is clamped in place before it is used
ResumeResolvedOf_ClampsBox(c) ==
  /\ calls[c].pc = "awaiting" /\ calls[c].promise = "resolved"
  /\ calls' = [calls EXCEPT
       ![c].result = MetricsWith(calls[c].imageDataObj, calls[c].faceBox, qualityThresholds),
       ![c].faceBox = IF calls[c].faceBox = None THEN None
                      ELSE [calls[c].faceBox EXCEPT
                              !.x = R(Max(0, Floor(calls[c].faceBox.x))),
                              !.width = R(Min(calls[c].imageDataObj.width,
                                              Floor(calls[c].faceBox.width)))],
       ![c].pc = "returned"]
  /\ UNCHANGED qualityThresholds
  /\ UNCHANGED <<vars, componentVars>>

\* the await of call c completes with its pixel buffer; the try block runs on
\* and returns the record
ResumeResolvedOf(c) ==
  /\ calls[c].pc = "awaiting" /\ calls[c].promise = "resolved"
  /\ calls' = [calls EXCEPT
       ![c].result = MetricsWith(calls[c].imageDataObj, calls[c].faceBox, qualityThresholds),
       ![c].pc = "returned"]
  /\ UNCHANGED qualityThresholds
  /\ UNCHANGED <<vars, componentVars>>

\* the await of call c throws; its catch block returns the default record
ResumeRejectedOf(c) ==
  /\ calls[c].pc = "awaiting" /\ calls[c].promise = "rejected"
  /\ calls' = [calls EXCEPT ![c].result = FallbackMetrics, ![c].pc = "returned"]
  /\ UNCHANGED qualityThresholds
  /\ UNCHANGED <<vars, componentVars>>

NextOverlap ==
  \/ \E c \in CallIds : CallOf(c)
  \/ \E c \in CallIds : DecodeRejectsOf(c)
  \/ \E c \in CallIds : DecodeHangsOf(c)
  \/ \E c \in CallIds : DecodeResolvesOf(c)
  \/ \E c \in CallIds : ResumeResolvedOf(c)
  \/ \E c \in CallIds : ResumeRejectedOf(c)

SpecOverlap == InitOverlap /\ [][NextOverlap]_<<vars, overlapVars>>

(***************************************************************************)
(* faceApi.ts: loadModels called by several callers on one event loop.     *)
(* A caller runs to its next await in one step. The two loadFromUri        *)
(* promises of an attempt settle one at a time; Promise.all fulfils when   *)
(* both have fulfilled and rejects at the first rejection, and the         *)
(* continuation of the awaiting caller runs in the same step as the        *)
(* settlement that decides it (microtasks run before the next task).       *)
(***************************************************************************)
NCallers == 2
MaxLoadCalls == 3

CallerIds == 1..NCallers
Nets == {"tinyFaceDetector", "faceLandmark68Net"}

NoQualityCheck ==
  /\ NoSingleCall
  /\ calls = <<>>
  /\ qualityThresholds = QUALITY_THRESHOLDS

besidesFaceApi == <<vars, overlapVars, easyVars, flowVars>>

InitLoad ==
  /\ modelsLoaded = FALSE
  /\ modelsLoading = FALSE
  /\ callers = [c \in CallerIds |-> [pc |-> "idle", waited |-> FALSE, attempt |-> 0]]
  /\ loads = <<>>
  /\ nCalls = 0
  /\ NoQualityCheck
  /\ NoEasyCapture
  /\ NoFlow

\* the attempt a is the one some caller is awaiting
Awaited(a) == \E c \in CallerIds : callers[c].pc = "awaiting" /\ callers[c].attempt = a
OwnerOf(a) == CHOOSE c \in CallerIds : callers[c].pc = "awaiting" /\ callers[c].attempt = a

\* variant: the modelsLoaded test at entry is missing
loadModels_NoLoadedCheck(c) ==
  /\ callers[c].pc \in {"idle", "returned", "threw"}
  /\ nCalls < MaxLoadCalls
  /\ nCalls' = nCalls + 1
  /\ IF modelsLoading
     THEN /\ callers' = [callers EXCEPT ![c] = [pc |-> "polling", waited |-> TRUE, attempt |-> 0]]
          /\ UNCHANGED <<modelsLoaded, modelsLoading, loads>>
     ELSE /\ modelsLoading' = TRUE
          /\ loads' = Append(loads, [n \in Nets |-> "pending"])
          /\ callers' = [callers EXCEPT ![c] =
                           [pc |-> "awaiting", waited |-> FALSE, attempt |-> Len(loads) + 1]]
          /\ UNCHANGED modelsLoaded
  /\ UNCHANGED besidesFaceApi

\* caller c calls loadModels and runs to its first await or to its return
loadModels(c) ==
  /\ callers[c].pc \in {"idle", "returned", "threw"}
  /\ nCalls < MaxLoadCalls
  /\ nCalls' = nCalls + 1
  /\ IF modelsLoaded
     THEN /\ callers' = [callers EXCEPT ![c] = [pc |-> "returned", waited |-> FALSE, attempt |-> 0]]
          /\ UNCHANGED <<modelsLoaded, modelsLoading, loads>>
     ELSE IF modelsLoading
     THEN /\ callers' = [callers EXCEPT ![c] = [pc |-> "polling", waited |-> TRUE, attempt |-> 0]]
          /\ UNCHANGED <<modelsLoaded, modelsLoading, loads>>
     ELSE /\ modelsLoading' = TRUE
          /\ loads' = Append(loads, [n \in Nets |-> "pending"])
          /\ callers' = [callers EXCEPT ![c] =
                           [pc |-> "awaiting", waited |-> FALSE, attempt |-> Len(loads) + 1]]
          /\ UNCHANGED modelsLoaded
  /\ UNCHANGED besidesFaceApi

\* the 100 ms timer of a waiting caller fires: the while condition is tested
\* again, and the caller either returns or sets the next timer
TimerFires(c) ==
  /\ callers[c].pc = "polling"
  /\ IF modelsLoading
     THEN UNCHANGED callers
     ELSE callers' = [callers EXCEPT ![c].pc = "returned"]
  /\ UNCHANGED <<modelsLoaded, modelsLoading, loads, nCalls>>
  /\ UNCHANGED besidesFaceApi

\* one loadFromUri of attempt a fulfils; when it completes an awaited
\* Promise.all the caller resumes: modelsLoaded = true, finally, return
NetFulfils(a, net) ==
  /\ a \in 1..Len(loads)
  /\ loads[a][net] = "pending"
  /\ loads' = [loads EXCEPT ![a][net] = "fulfilled"]
  /\ IF Awaited(a) /\ \A n \in Nets \ {net} : loads[a][n] = "fulfilled"
     THEN /\ modelsLoaded' = TRUE
          /\ modelsLoading' = FALSE
          /\ callers' = [callers EXCEPT ![OwnerOf(a)].pc = "returned"]
     ELSE UNCHANGED <<modelsLoaded, modelsLoading, callers>>
  /\ UNCHANGED nCalls
  /\ UNCHANGED besidesFaceApi

\* variant: the finally block is missing, a failed attempt leaves modelsLoading set
NetRejects_NoFinally(a, net) ==
  /\ a \in 1..Len(loads)
  /\ loads[a][net] = "pending"
  /\ loads' = [loads EXCEPT ![a][net] = "rejected"]
  /\ IF Awaited(a)
     THEN /\ callers' = [callers EXCEPT ![OwnerOf(a)].pc = "threw"]
          /\ UNCHANGED <<modelsLoaded, modelsLoading>>
     ELSE UNCHANGED <<modelsLoaded, modelsLoading, callers>>
  /\ UNCHANGED nCalls
  /\ UNCHANGED besidesFaceApi

\* one loadFromUri of attempt a rejects; an awaited Promise.all rejects at
\* once and the caller resumes: catch, rethrow, finally
NetRejects(a, net) ==
  /\ a \in 1..Len(loads)
  /\ loads[a][net] = "pending"
  /\ loads' = [loads EXCEPT ![a][net] = "rejected"]
  /\ IF Awaited(a)
     THEN /\ modelsLoading' = FALSE
          /\ callers' = [callers EXCEPT ![OwnerOf(a)].pc = "threw"]
          /\ UNCHANGED modelsLoaded
     ELSE UNCHANGED <<modelsLoaded, modelsLoading, callers>>
  /\ UNCHANGED nCalls
  /\ UNCHANGED besidesFaceApi

NextLoad ==
  \/ \E c \in CallerIds : loadModels(c)
  \/ \E c \in CallerIds : TimerFires(c)
  \/ \E a \in 1..MaxLoadCalls, net \in Nets : NetFulfils(a, net)
  \/ \E a \in 1..MaxLoadCalls, net \in Nets : NetRejects(a, net)

SpecLoad == InitLoad /\ [][NextLoad]_faceApiVars

\* every timer fires and every loadFromUri settles
SpecLoadFair ==
  /\ SpecLoad
  /\ \A c \in CallerIds : WF_faceApiVars(TimerFires(c))
  /\ \A a \in 1..MaxLoadCalls, net \in Nets :
       WF_faceApiVars(NetFulfils(a, net) \/ NetRejects(a, net))

(***************************************************************************)
(* EasyFaceCapture.tsx: the buttons a render shows and the handlers they   *)
(* invoke. A handler runs to its await in one step and resumes in a later  *)
(* one; its closure keeps the state of the render that created it, while   *)
(* setState(prev => ...) applies to the state current at that time. The    *)
(* message and animation fields, which no handler reads, are left out.     *)
(***************************************************************************)
MaxPending == 2
MaxStarts == 1

CAPTURE_STEPS == <<"Center", "Left", "Right", "Up", "Down">>

\* CAPTURE_STEPS[i], indexed from 0; undefined beyond the last step
StepAt(i) == IF i < Len(CAPTURE_STEPS) THEN CAPTURE_STEPS[i + 1] ELSE "undefined"

RemoveAt(seq, i) == SubSeq(seq, 1, i - 1) \o SubSeq(seq, i + 1, Len(seq))

besidesEasy == <<vars, overlapVars, faceApiVars, flowVars>>

InitEasy ==
  /\ NoEasyCapture
  /\ NoQualityCheck
  /\ NoFaceApi
  /\ NoFlow

\* 'Start Camera' / 'Try Again': shown when status is idle or error
startCamera ==
  /\ status \in {"idle", "error"}
  /\ cameraStarts < MaxStarts
  /\ status' = "camera_starting"
  /\ cameraStarts' = cameraStarts + 1
  /\ UNCHANGED <<currentStep, capturedResults, startCaptures, pendingCaptures, completions>>
  /\ UNCHANGED besidesEasy

\* getUserMedia and play() fulfil
CameraReady ==
  /\ cameraStarts > 0
  /\ cameraStarts' = cameraStarts - 1
  /\ status' = "camera_ready"
  /\ UNCHANGED <<currentStep, capturedResults, startCaptures, pendingCaptures, completions>>
  /\ UNCHANGED besidesEasy

\* getUserMedia or play() rejects (or the page is not secure): catch block
CameraFails ==
  /\ cameraStarts > 0
  /\ cameraStarts' = cameraStarts - 1
  /\ status' = "error"
  /\ UNCHANGED <<currentStep, capturedResults, startCaptures, pendingCaptures, completions>>
  /\ UNCHANGED besidesEasy

\* 'Start Face Capture': shown when status is camera_ready; runs to await loadModels()
startCapture ==
  /\ status = "camera_ready"
  /\ startCaptures < MaxStarts
  /\ startCaptures' = startCaptures + 1
  /\ UNCHANGED <<status, currentStep, capturedResults, cameraStarts, pendingCaptures, completions>>
  /\ UNCHANGED besidesEasy

\* loadModels() returned: the capture run begins
StartCaptureResumes ==
  /\ startCaptures > 0
  /\ startCaptures' = startCaptures - 1
  /\ status' = "capturing"
  /\ currentStep' = 0
  /\ capturedResults' = <<>>
  /\ completions' = <<>>
  /\ UNCHANGED <<cameraStarts, pendingCaptures>>
  /\ UNCHANGED besidesEasy

\* loadModels() threw: startCapture ends without a state update
StartCaptureThrows ==
  /\ startCaptures > 0
  /\ startCaptures' = startCaptures - 1
  /\ UNCHANGED <<status, currentStep, capturedResults, cameraStarts, pendingCaptures, completions>>
  /\ UNCHANGED besidesEasy

\* 'Reset' / 'Start New Capture': shown when status is capturing, completed or error
resetCapture ==
  /\ status \in {"capturing", "completed", "error"}
  /\ status' = "idle"
  /\ currentStep' = 0
  /\ capturedResults' = <<>>
  /\ UNCHANGED <<cameraStarts, startCaptures, pendingCaptures, completions>>
  /\ UNCHANGED besidesEasy

\* 'Capture': shown when status is capturing; runs to await detectFace(...)
captureCurrentPose ==
  /\ status = "capturing"
  /\ Len(pendingCaptures) < MaxPending
  /\ pendingCaptures' = Append(pendingCaptures,
                               [currentStep |-> currentStep, capturedResults |-> capturedResults])
  /\ UNCHANGED <<status, currentStep, capturedResults, cameraStarts, startCaptures, completions>>
  /\ UNCHANGED besidesEasy

\* detectFace returned null, or there is no 2d context, or the capture threw:
\* the invocation ends without a captured result
CaptureGivesUp(i) ==
  /\ i \in 1..Len(pendingCaptures)
  /\ pendingCaptures' = RemoveAt(pendingCaptures, i)
  /\ UNCHANGED <<status, currentStep, capturedResults, cameraStarts, startCaptures, completions>>
  /\ UNCHANGED besidesEasy

\* detectFace returned a detection: the invocation captures the frame, appends
\* the result and advances the step, then tests for completion
CaptureResumes(i) ==
  /\ i \in 1..Len(pendingCaptures)
  /\ LET closure == pendingCaptures[i]
         captureResult == StepAt(closure.currentStep)
     IN /\ pendingCaptures' = RemoveAt(pendingCaptures, i)
        /\ capturedResults' = Append(capturedResults, captureResult)
        /\ currentStep' = currentStep + 1
        /\ IF closure.currentStep + 1 >= Len(CAPTURE_STEPS)
           THEN /\ status' = "completed"
                /\ completions' = Append(completions,
                                         Append(closure.capturedResults, captureResult))
           ELSE UNCHANGED <<status, completions>>
  /\ UNCHANGED <<cameraStarts, startCaptures>>
  /\ UNCHANGED besidesEasy

NextEasy ==
  \/ startCamera
  \/ CameraReady
  \/ CameraFails
  \/ startCapture
  \/ StartCaptureResumes
  \/ StartCaptureThrows
  \/ resetCapture
  \/ captureCurrentPose
  \/ \E i \in 1..MaxPending : CaptureGivesUp(i)
  \/ \E i \in 1..MaxPending : CaptureResumes(i)

SpecEasy == InitEasy /\ [][NextEasy]_easyVars

(***************************************************************************)
(* IntegratedFaceCapture.tsx: the flow user_data, face_capture,            *)
(* processing, completed or error. handleFaceCaptureComplete runs from one *)
(* await to the next in one step; every database call may return or throw. *)
(***************************************************************************)
MaxImages == 5

besidesFlow == <<vars, overlapVars, faceApiVars, easyVars>>

InitFlow ==
  /\ NoFlow
  /\ NoQualityCheck
  /\ NoFaceApi
  /\ NoEasyCapture

\* the form is submitted: userData is stored and the 1 s timer is set
handleUserDataSubmit ==
  /\ flowStep = "user_data"
  /\ flowPc = "form"
  /\ flowPc' = "submitted"
  /\ UNCHANGED <<flowStep, nResults, imageIndex, successfulImages, failedImages,
                 session, savedImages>>
  /\ UNCHANGED besidesFlow

\* the timer set by handleUserDataSubmit fires
FaceCaptureTimer ==
  /\ flowPc = "submitted"
  /\ flowStep' = "face_capture"
  /\ flowPc' = "capture"
  /\ UNCHANGED <<nResults, imageIndex, successfulImages, failedImages, session, savedImages>>
  /\ UNCHANGED besidesFlow

\* EasyFaceCapture reports a camera error
handleFaceCaptureError ==
  /\ flowStep = "face_capture"
  /\ flowPc = "capture"
  /\ flowStep' = "error"
  /\ flowPc' = "done"
  /\ UNCHANGED <<nResults, imageIndex, successfulImages, failedImages, session, savedImages>>
  /\ UNCHANGED besidesFlow

\* EasyFaceCapture calls onCaptureComplete with n results: up to await createUser
handleFaceCaptureComplete(n) ==
  /\ flowStep = "face_capture"
  /\ flowPc = "capture"
  /\ flowStep' = "processing"
  /\ flowPc' = "createUser"
  /\ nResults' = n
  /\ UNCHANGED <<imageIndex, successfulImages, failedImages, session, savedImages>>
  /\ UNCHANGED besidesFlow

\* a database call throws outside the per-image try: the outer catch
ProcessingThrows ==
  /\ flowPc \in {"createUser", "createCaptureSession", "updateCaptureSession"}
  /\ flowStep' = "error"
  /\ flowPc' = "done"
  /\ UNCHANGED <<nResults, imageIndex, successfulImages, failedImages, session, savedImages>>
  /\ UNCHANGED besidesFlow

CreateUserReturns ==
  /\ flowPc = "createUser"
  /\ flowPc' = "createCaptureSession"
  /\ UNCHANGED <<flowStep, nResults, imageIndex, successfulImages, failedImages,
                 session, savedImages>>
  /\ UNCHANGED besidesFlow

\* the session row is inserted; successfulImages = failedImages = 0, i = 0
CreateCaptureSessionReturns ==
  /\ flowPc = "createCaptureSession"
  /\ session' = [status |-> "in_progress"]
  /\ successfulImages' = 0
  /\ failedImages' = 0
  /\ imageIndex' = 0
  /\ flowPc' = IF 0 < nResults THEN "saveFaceImage" ELSE "updateCaptureSession"
  /\ UNCHANGED <<flowStep, nResults, savedImages>>
  /\ UNCHANGED besidesFlow

\* the image loads and saveFaceImage returns: successfulImages++
SaveFaceImageReturns ==
  /\ flowPc = "saveFaceImage"
  /\ savedImages' = savedImages + 1
  /\ successfulImages' = successfulImages + 1
  /\ imageIndex' = imageIndex + 1
  /\ flowPc' = IF imageIndex + 1 < nResults THEN "saveFaceImage" ELSE "updateCaptureSession"
  /\ UNCHANGED <<flowStep, nResults, failedImages, session>>
  /\ UNCHANGED besidesFlow

\* the image fails to load or saveFaceImage throws: inner catch, failedImages++
SaveFaceImageThrows ==
  /\ flowPc = "saveFaceImage"
  /\ failedImages' = failedImages + 1
  /\ imageIndex' = imageIndex + 1
  /\ flowPc' = IF imageIndex + 1 < nResults THEN "saveFaceImage" ELSE "updateCaptureSession"
  /\ UNCHANGED <<flowStep, nResults, successfulImages, session, savedImages>>
  /\ UNCHANGED besidesFlow

\* updateCaptureSession returns: the row is updated and the 1 s timer is set
UpdateCaptureSessionReturns ==
  /\ flowPc = "updateCaptureSession"
  /\ session' = [status |-> IF successfulImages > 0 THEN "completed" ELSE "failed",
                 total_images |-> nResults,
                 successful_images |-> successfulImages,
                 failed_images |-> failedImages]
  /\ flowPc' = "finishing"
  /\ UNCHANGED <<flowStep, nResults, imageIndex, successfulImages, failedImages, savedImages>>
  /\ UNCHANGED besidesFlow

\* the timer set after updateCaptureSession fires: setCurrentStep("completed")
CompletionTimer ==
  /\ flowPc = "finishing"
  /\ flowStep' = "completed"
  /\ flowPc' = "done"
  /\ UNCHANGED <<nResults, imageIndex, successfulImages, failedImages, session, savedImages>>
  /\ UNCHANGED besidesFlow

\* 'Start over' on the completed and error screens
handleReset ==
  /\ flowStep \in {"completed", "error"}
  /\ flowPc = "done"
  /\ flowStep' = "user_data"
  /\ flowPc' = "form"
  /\ nResults' = 0
  /\ imageIndex' = 0
  /\ successfulImages' = 0
  /\ failedImages' = 0
  /\ session' = None
  /\ savedImages' = 0
  /\ UNCHANGED besidesFlow

NextFlow ==
  \/ handleUserDataSubmit
  \/ FaceCaptureTimer
  \/ handleFaceCaptureError
  \/ \E n \in 1..MaxImages : handleFaceCaptureComplete(n)
  \/ ProcessingThrows
  \/ CreateUserReturns
  \/ CreateCaptureSessionReturns
  \/ SaveFaceImageReturns
  \/ SaveFaceImageThrows
  \/ UpdateCaptureSessionReturns
  \/ CompletionTimer
  \/ handleReset

SpecFlow == InitFlow /\ [][NextFlow]_flowVars

(***************************************************************************)
(* Vocabulary of the properties.                                           *)
(***************************************************************************)
Returned == pc = "returned"
Succeeded == pc = "returned" /\ promise = "resolved"
Failed == pc = "returned" /\ promise = "rejected"

Rank(level) == CASE level = "Low" -> 0 [] level = "Medium" -> 1 [] level = "High" -> 2

\* the minimum of three levels under Low < Medium < High
WorstOf(a, b, c) ==
  CHOOSE l \in {a, b, c} : \A m \in {a, b, c} : Rank(l) <= Rank(m)

\* the face box clamped to the image, written out from the box and the image
ClampLeft == IF faceBox = None THEN 0 ELSE Max(0, faceBox.x.num \div faceBox.x.den)
ClampTop == IF faceBox = None THEN 0 ELSE Max(0, faceBox.y.num \div faceBox.y.den)
ClampRight ==
  IF faceBox = None THEN imageDataObj.width
  ELSE Min(imageDataObj.width,
           (faceBox.x.num * faceBox.width.den + faceBox.width.num * faceBox.x.den)
             \div (faceBox.x.den * faceBox.width.den))
ClampBottom ==
  IF faceBox = None THEN imageDataObj.height
  ELSE Min(imageDataObj.height,
           (faceBox.y.num * faceBox.height.den + faceBox.height.num * faceBox.y.den)
             \div (faceBox.y.den * faceBox.height.den))
ClampedWidth == ClampRight - ClampLeft
ClampedHeight == ClampBottom - ClampTop

\* C1: the overall level is the minimum of the three sub-levels under
\* Low < Medium < High, for all 27 combinations and in every record returned
C1_OverallIsWorst ==
  /\ \A a \in QualityLevel, b \in QualityLevel, c \in QualityLevel :
       calculateOverallQuality(a, b, c) = WorstOf(a, b, c)
  /\ Returned =>
       result.overall =
         WorstOf(result.faceSize.level, result.sharpness.level, result.lighting.level)

C1_Witness ==
  /\ Succeeded
  /\ result.faceSize.level = "High"
  /\ result.sharpness.level = "High"
  /\ result.lighting.level = "Medium"
  /\ result.overall = "Medium"

\* C2: when the decode step fails (the payload does not load, no drawing
\* context, or reading the pixels throws) the call does not throw: it returns
\* the record whose four levels are Low and whose four numbers are 0
C2_FailureReturnsFallback ==
  /\ pc # "threw"
  /\ Failed =>
       /\ result.faceSize.level = "Low"
       /\ result.sharpness.level = "Low"
       /\ result.lighting.level = "Low"
       /\ result.overall = "Low"
       /\ result.faceSize.width = R(0)
       /\ result.faceSize.height = R(0)
       /\ result.sharpness.variance = R(0)
       /\ result.lighting.brightness = R(0)

C2_Witness ==
  /\ Failed
  /\ payload = Bad
  /\ handler = "onerror"
  /\ result.overall = "Low"
  /\ result.lighting.brightness = R(0)

\* C3: the decode step settles exactly once in every execution: once an image
\* event handler has run, the promise of base64ToImageData is resolved or
\* rejected, also when drawing the image fails inside the load callback
C3_DecodeSettles ==
  handler # "none" => promise \in {"resolved", "rejected"}

C5_EmptyRegionUsesWholeImage ==
  (Succeeded /\ faceBox # None /\ (ClampedWidth <= 0 \/ ClampedHeight <= 0)) =>
    result = Metrics(imageDataObj, None)

\* C5 amended: a region entirely outside the image, or empty after clamping,
\* is not replaced by the whole image: no pixel is analysed, sharpness.variance
\* and lighting.brightness are 0, and sharpness, lighting and overall are Low
C5_EmptyRegionGivesZero ==
  (Succeeded /\ faceBox # None /\ (ClampedWidth <= 0 \/ ClampedHeight <= 0)) =>
    /\ result.sharpness.variance = R(0)
    /\ result.lighting.brightness = R(0)
    /\ result.sharpness.level = "Low"
    /\ result.lighting.level = "Low"
    /\ result.overall = "Low"

C5_Witness ==
  /\ Succeeded
  /\ faceBox # None
  /\ faceBox.x = Q(14, 2)
  /\ faceBox.width = Q(6, 2)
  /\ ClampedWidth <= 0
  /\ imageDataObj.width = 3 /\ imageDataObj.height = 3
  /\ Metrics(imageDataObj, None).lighting.level = "High"
  /\ result.lighting.brightness = R(0)

\* C6: on success faceSize.width and faceSize.height equal the box's width and
\* height whenever a box is provided, including 0, and the image's otherwise
C6_FaceSizeIsBoxSize ==
  Succeeded =>
    /\ result.faceSize.width =
         (IF faceBox # None THEN faceBox.width ELSE R(imageDataObj.width))
    /\ result.faceSize.height =
         (IF faceBox # None THEN faceBox.height ELSE R(imageDataObj.height))

\* C7: the face-size level is a function of the face width alone: High from
\* 200, Medium from 120 up to 200, Low below 120, whatever the height
C7_FaceSizeLevelByWidth ==
  Returned =>
    result.faceSize.level =
      (IF result.faceSize.width.num >= 200 * result.faceSize.width.den THEN "High"
       ELSE IF result.faceSize.width.num >= 120 * result.faceSize.width.den THEN "Medium"
       ELSE "Low")

C7_Witness ==
  /\ Succeeded
  /\ result.faceSize.width = Q(400, 2)
  /\ result.faceSize.height = Q(2, 2)
  /\ result.faceSize.level = "High"

\* C8: lighting is High for brightness in [80, 180], Medium for brightness in
\* [50, 220] outside [80, 180], Low below 50 or above 220
C8_LightingLevelByRange ==
  Returned =>
    LET b == result.lighting.brightness
    IN result.lighting.level =
         (IF b.num >= 80 * b.den /\ b.num <= 180 * b.den THEN "High"
          ELSE IF b.num >= 50 * b.den /\ b.num <= 220 * b.den THEN "Medium"
          ELSE "Low")

C8_Witness ==
  /\ Succeeded
  /\ Same(result.lighting.brightness, R(180))
  /\ result.lighting.level = "High"

\* C9: sharpness is High for variance >= 1000, Medium for variance in
\* [500, 1000), Low below 500
C9_SharpnessLevelByVariance ==
  Returned =>
    LET v == result.sharpness.variance
    IN result.sharpness.level =
         (IF v.num >= 1000 * v.den THEN "High"
          ELSE IF v.num >= 500 * v.den THEN "Medium"
          ELSE "Low")

C9_Witness ==
  /\ Succeeded
  /\ Same(result.sharpness.variance, R(500))
  /\ result.sharpness.level = "Medium"

\* C10: when the analysed region (the image, or the box clamped to it) is less
\* than 3 wide or less than 3 high the call returns, with sharpness.variance 0
\* and sharpness.level Low
C10_NoInteriorGivesZero ==
  /\ pc # "threw"
  /\ (Succeeded /\ (ClampedWidth < 3 \/ ClampedHeight < 3)) =>
       /\ result.sharpness.variance.num = 0
       /\ result.sharpness.level = "Low"

C10_Witness ==
  /\ Succeeded
  /\ faceBox = None
  /\ imageDataObj.width = 2 /\ imageDataObj.height = 2
  /\ result.sharpness.variance = R(0)
  /\ result.sharpness.level = "Low"

\* every pixel of the image has the colour (and alpha) of its first pixel
Uniform(imageData) ==
  \A i \in 1..Len(imageData.data) : imageData.data[i] = imageData.data[((i - 1) % 4) + 1]

\* the widths the face boxes of the input space have
BoxWidths == { b.width : b \in FaceBoxes }

\* C11: in every returned record sharpness.variance >= 0 and
\* 0 <= lighting.brightness <= 255
C11_NonNegativeOnScale ==
  Returned =>
    /\ result.sharpness.variance.den > 0
    /\ result.sharpness.variance.num >= 0
    /\ result.lighting.brightness.den > 0
    /\ result.lighting.brightness.num >= 0
    /\ result.lighting.brightness.num <= 255 * result.lighting.brightness.den

C11_Witness ==
  /\ Succeeded
  /\ imageDataObj.width = 3 /\ imageDataObj.height = 3
  /\ faceBox = None
  /\ Same(result.lighting.brightness, R(255))
  /\ result.lighting.level = "Low"

\* C13: an image whose pixels all have the same colour, analysed with no
\* region, has sharpness.variance 0, sharpness Low and overall Low
C13_UniformImageIsLow ==
  (Succeeded /\ faceBox = None /\ Uniform(imageDataObj)) =>
    /\ result.sharpness.variance.num = 0
    /\ result.sharpness.level = "Low"
    /\ result.overall = "Low"

C13_Witness ==
  /\ Succeeded
  /\ faceBox = None
  /\ imageDataObj.width = WideW /\ imageDataObj.height >= 3
  /\ Uniform(imageDataObj)
  /\ imageDataObj.data[1] = 128
  /\ result.faceSize.level = "High"
  /\ result.lighting.level = "High"
  /\ result.sharpness.variance.num = 0
  /\ result.overall = "Low"

\* C14: with the image and the rest of the box fixed, a larger box width never
\* gives a lower face-size level, and 119, 120, 199, 200 give Low, Medium,
\* Medium, High
C14_WidthMonotone ==
  /\ (Succeeded /\ faceBox # None) =>
       \A w \in BoxWidths :
         LeqR(faceBox.width, w) =>
           Rank(result.faceSize.level)
             <= Rank(getQualityLevel(faceWidthOf(imageDataObj, [faceBox EXCEPT !.width = w]),
                                     QUALITY_THRESHOLDS.faceSize))
  /\ (Succeeded /\ faceBox # None /\ faceBox.width = Q(238, 2)) => result.faceSize.level = "Low"
  /\ (Succeeded /\ faceBox # None /\ faceBox.width = Q(240, 2)) => result.faceSize.level = "Medium"
  /\ (Succeeded /\ faceBox # None /\ faceBox.width = Q(398, 2)) => result.faceSize.level = "Medium"
  /\ (Succeeded /\ faceBox # None /\ faceBox.width = Q(400, 2)) => result.faceSize.level = "High"

\* C15: every returned record, from the success path or the failure path, has
\* faceSize, sharpness, lighting and overall, and its four levels are among
\* High, Medium, Low
C15_FullyPopulated ==
  Returned =>
    /\ DOMAIN result = {"faceSize", "sharpness", "lighting", "overall"}
    /\ DOMAIN result.faceSize = {"width", "height", "level"}
    /\ DOMAIN result.sharpness = {"variance", "level"}
    /\ DOMAIN result.lighting = {"brightness", "level"}
    /\ result.faceSize.level \in QualityLevel
    /\ result.sharpness.level \in QualityLevel
    /\ result.lighting.level \in QualityLevel
    /\ result.overall \in QualityLevel

C15_Witness ==
  /\ Failed
  /\ handler = "onload: getImageData threw"
  /\ DOMAIN result = {"faceSize", "sharpness", "lighting", "overall"}
  /\ result.faceSize.level = "Low"

\* call c has returned a record computed from its pixels
SucceededOf(c) == calls[c].pc = "returned" /\ calls[c].promise = "resolved"
\* call c has returned the default record
FailedOf(c) == calls[c].pc = "returned" /\ calls[c].promise = "rejected"

\* C12: two calls that analysed the same image with the same region returned
\* identical records, whatever other calls ran before, between or during them
C12_SameInputsSameRecord ==
  \A c \in DOMAIN calls, d \in DOMAIN calls :
    (/\ SucceededOf(c) /\ SucceededOf(d)
     /\ calls[c].payload = calls[d].payload
     /\ calls[c].faceBox = calls[d].faceBox)
      => calls[c].result = calls[d].result

C12_Witness ==
  \E c \in DOMAIN calls, d \in DOMAIN calls, e \in DOMAIN calls :
    /\ c # d /\ c # e /\ d # e
    /\ SucceededOf(c) /\ SucceededOf(d) /\ SucceededOf(e)
    /\ calls[c].payload = calls[d].payload /\ calls[c].faceBox = calls[d].faceBox
    /\ calls[e].payload # calls[c].payload
    /\ calls[c].result = calls[d].result
    /\ calls[e].result # calls[c].result

\* C16: under every interleaving of the steps of overlapping calls, a call
\* that returns returns the record it returns when it runs alone: the record
\* of its own payload and box, or the default record if its decode failed
C16_OverlapReturnsSoloRecord ==
  \A c \in DOMAIN calls :
    /\ SucceededOf(c) => calls[c].result = Metrics(calls[c].payload, calls[c].faceBox)
    /\ FailedOf(c) => calls[c].result = FallbackMetrics
    /\ calls[c].pc = "returned" => calls[c].promise \in {"resolved", "rejected"}

C16_Witness ==
  \E c \in DOMAIN calls, d \in DOMAIN calls :
    /\ c # d
    /\ calls[c].payload # Bad /\ calls[d].payload # Bad
    /\ calls[c].payload # calls[d].payload
    /\ SucceededOf(c)
    /\ calls[d].pc = "awaiting" /\ calls[d].promise = "resolved"
    /\ calls[c].result.sharpness.level = "High"

\* C17: no step of a call changes a payload, a face box, a decoded pixel
\* buffer or the thresholds, on the success path and on the failure path
C17_InputsAndThresholdsUnchanged ==
  [][/\ qualityThresholds' = qualityThresholds
     /\ \A c \in DOMAIN calls :
          /\ calls'[c].payload = calls[c].payload
          /\ calls'[c].faceBox = calls[c].faceBox
          /\ calls[c].imageDataObj # None => calls'[c].imageDataObj = calls[c].imageDataObj]_<<vars, overlapVars>>

C17_Witness ==
  \E c \in DOMAIN calls, d \in DOMAIN calls :
    /\ SucceededOf(c) /\ calls[c].faceBox # None
    /\ calls[c].imageDataObj = calls[c].payload
    /\ FailedOf(d)
    /\ qualityThresholds.sharpness.high = 1000

\* C18: getQualityColor gives High, Medium, Low the green, yellow and red
\* tokens, getQualityIcon gives them the check mark (U+2705), the warning sign
\* (U+26A0 U+FE0F) and the cross mark (U+274C); the three tokens are pairwise
\* distinct and so are the three icons
C18_ColoursAndIcons ==
  /\ getQualityColor("High") = "text-green-600 bg-green-100"
  /\ getQualityColor("Medium") = "text-yellow-600 bg-yellow-100"
  /\ getQualityColor("Low") = "text-red-600 bg-red-100"
  /\ getQualityIcon("High") = <<9989>>
  /\ getQualityIcon("Medium") = <<9888, 65039>>
  /\ getQualityIcon("Low") = <<10060>>
  /\ \A a \in QualityLevel, b \in QualityLevel :
       a # b => /\ getQualityColor(a) # getQualityColor(b)
                /\ getQualityIcon(a) # getQualityIcon(b)
  /\ Returned =>
       /\ (result.overall = "High") <=> (getQualityColor(result.overall) = "text-green-600 bg-green-100")
       /\ (result.overall = "Medium") <=> (getQualityColor(result.overall) = "text-yellow-600 bg-yellow-100")
       /\ (result.overall = "Low") <=> (getQualityIcon(result.overall) = <<10060>>)

C18_Witness ==
  /\ Succeeded
  /\ result.overall = "Medium"
  /\ getQualityColor(result.overall) = "text-yellow-600 bg-yellow-100"
  /\ getQualityIcon(result.overall) = <<9888, 65039>>
  /\ getQualityIcon(result.faceSize.level) = <<9989>>

\* reading a formatted number back
DigitValue(ch) ==
  CASE ch = "0" -> 0 [] ch = "1" -> 1 [] ch = "2" -> 2 [] ch = "3" -> 3 [] ch = "4" -> 4
    [] ch = "5" -> 5 [] ch = "6" -> 6 [] ch = "7" -> 7 [] ch = "8" -> 8 [] ch = "9" -> 9

AllDigits(ds) ==
  /\ Len(ds) > 0
  /\ \A i \in 1..Len(ds) : ds[i] \in {"0", "1", "2", "3", "4", "5", "6", "7", "8", "9"}

RECURSIVE ParseNat(_)
ParseNat(ds) ==
  IF Len(ds) = 0 THEN 0
  ELSE 10 * ParseNat(SubSeq(ds, 1, Len(ds) - 1)) + DigitValue(ds[Len(ds)])

\* ds reads as the rational r: digits, or digits followed by ".5"
ReadsAs(ds, r) ==
  IF Len(ds) > 2 /\ ds[Len(ds) - 1] = "."
  THEN /\ ds[Len(ds)] = "5"
       /\ AllDigits(SubSeq(ds, 1, Len(ds) - 2))
       /\ (2 * ParseNat(SubSeq(ds, 1, Len(ds) - 2)) + 1) * r.den = 2 * r.num
  ELSE /\ AllDigits(ds)
       /\ ParseNat(ds) * r.den = r.num

\* ds reads as an integer nearest to r
ReadsAsNearest(ds, r) ==
  /\ AllDigits(ds)
  /\ 2 * Abs(r.num - ParseNat(ds) * r.den) <= r.den

\* seg is label, level, " (", the characters of a number, closing
Shaped(seg, label, level, closing) ==
  /\ Len(seg) >= 5
  /\ SubSeq(seg, 1, 3) = <<label, level, " (">>
  /\ seg[Len(seg)] = closing

NumberPart(seg) == SubSeq(seg, 4, Len(seg) - 1)

\* C19: the summary is one line made of four parts in the order overall, face
\* size, sharpness, lighting, separated by ' | ': 'Overall: <overall>',
\* 'Face Size: <level> (<width>px)', 'Sharpness: <level> (<variance rounded
\* to the nearest integer>)', 'Lighting: <level> (<brightness rounded to the
\* nearest integer>)', all taken from the record given
C19_SummaryReportsRecord ==
  Returned =>
    LET s == getQualitySummary(result)
        seps == { i \in 1..Len(s) : s[i] = " | " }
    IN /\ \A i \in 1..Len(s) : s[i] # "\n"
       /\ Cardinality(seps) = 3
       /\ LET p1 == CHOOSE i \in seps : \A j \in seps : i <= j
              p3 == CHOOSE i \in seps : \A j \in seps : i >= j
              p2 == CHOOSE i \in seps : i # p1 /\ i # p3
              face == SubSeq(s, p1 + 1, p2 - 1)
              sharp == SubSeq(s, p2 + 1, p3 - 1)
              light == SubSeq(s, p3 + 1, Len(s))
          IN /\ SubSeq(s, 1, p1 - 1) = <<"Overall: ", result.overall>>
             /\ Shaped(face, "Face Size: ", result.faceSize.level, "px)")
             /\ ReadsAs(NumberPart(face), result.faceSize.width)
             /\ Shaped(sharp, "Sharpness: ", result.sharpness.level, ")")
             /\ ReadsAsNearest(NumberPart(sharp), result.sharpness.variance)
             /\ Shaped(light, "Lighting: ", result.lighting.level, ")")
             /\ ReadsAsNearest(NumberPart(light), result.lighting.brightness)

C19_Witness ==
  /\ Succeeded
  /\ result.faceSize.width = Q(239, 2)
  /\ result.sharpness.variance = Q(7497, 18)
  /\ getQualitySummary(result) =
       <<"Overall: ", "Low", " | ",
         "Face Size: ", "Low", " (", "1", "1", "9", ".", "5", "px)", " | ",
         "Sharpness: ", "Low", " (", "4", "1", "7", ")", " | ",
         "Lighting: ", "Low", " (", "1", "1", ")">>

\* the pixels of the analysed region that are not on its outermost border
InteriorPixels ==
  { c \in (0..(imageDataObj.width - 1)) \X (0..(imageDataObj.height - 1)) :
      /\ ClampLeft < c[1] /\ c[1] < ClampRight - 1
      /\ ClampTop < c[2] /\ c[2] < ClampBottom - 1 }

\* R + G + B of pixel (x, y): three times its unweighted average
ChannelSum(x, y) ==
  LET first == (y * imageDataObj.width + x) * 4 + 1
  IN imageDataObj.data[first] + imageDataObj.data[first + 1] + imageDataObj.data[first + 2]

\* the square of three times 4*center - top - bottom - left - right
SquaredResponse9(x, y) ==
  LET resp == 4 * ChannelSum(x, y) - ChannelSum(x, y - 1) - ChannelSum(x, y + 1)
                - ChannelSum(x - 1, y) - ChannelSum(x + 1, y)
  IN resp * resp

\* C20: sharpness.variance is the mean, over exactly the interior pixels of
\* the analysed region, of the squared Laplacian response of the grayscale
\* (R + G + B) / 3, alpha ignored; it is 0 when there is no interior pixel
C20_VarianceIsMeanSquaredLaplacian ==
  Succeeded =>
    LET total ==
          SumLoops(0, imageDataObj.width - 1, 0, imageDataObj.height - 1,
                   [c \in (0..(imageDataObj.width - 1)) \X (0..(imageDataObj.height - 1)) |->
                      IF c \in InteriorPixels THEN SquaredResponse9(c[1], c[2]) ELSE 0])
        n == Cardinality(InteriorPixels)
    IN IF n = 0
       THEN result.sharpness.variance.num = 0
       ELSE result.sharpness.variance.num * 9 * n = result.sharpness.variance.den * total

C20_Witness ==
  /\ Succeeded
  /\ faceBox = None
  /\ imageDataObj.width = 4 /\ imageDataObj.height = 3
  /\ imageDataObj.data[1] = 200 /\ imageDataObj.data[4] = 128
  /\ Cardinality(InteriorPixels) = 2
  /\ result.sharpness.variance.num > 0

\* the pixels of the analysed region, border included
RegionPixels ==
  { c \in (0..(imageDataObj.width - 1)) \X (0..(imageDataObj.height - 1)) :
      /\ ClampLeft <= c[1] /\ c[1] < ClampRight
      /\ ClampTop <= c[2] /\ c[2] < ClampBottom }

\* 1000 times 0.299 R + 0.587 G + 0.114 B of pixel (x, y)
WeightedSum1000(x, y) ==
  LET first == (y * imageDataObj.width + x) * 4 + 1
  IN 299 * imageDataObj.data[first] + 587 * imageDataObj.data[first + 1]
       + 114 * imageDataObj.data[first + 2]

\* a fraction in lowest terms
RECURSIVE Gcd(_, _)
Gcd(a, b) == IF b = 0 THEN a ELSE Gcd(b, a % b)

LowestTerms(r) ==
  [num |-> r.num \div Gcd(r.num, r.den), den |-> r.den \div Gcd(r.num, r.den)]

\* C21: lighting.brightness is the mean, over every pixel of the analysed
\* region (its border included), of 0.299 R + 0.587 G + 0.114 B; it is a
\* function of the R, G, B samples inside the region only
C21_BrightnessIsMeanLuminance ==
  Succeeded =>
    LET total ==
          SumLoops(0, imageDataObj.width - 1, 0, imageDataObj.height - 1,
                   [c \in (0..(imageDataObj.width - 1)) \X (0..(imageDataObj.height - 1)) |->
                      IF c \in RegionPixels THEN WeightedSum1000(c[1], c[2]) ELSE 0])
        n == Cardinality(RegionPixels)
    IN n > 0 =>
         LowestTerms(result.lighting.brightness) = LowestTerms([num |-> total, den |-> 1000 * n])

C21_Witness ==
  /\ Succeeded
  /\ faceBox # None
  /\ imageDataObj.width = 4 /\ imageDataObj.height = 3
  /\ imageDataObj.data[1] = 200 /\ imageDataObj.data[4] = 128
  /\ ClampLeft = 0 /\ ClampRight = 3 /\ ClampTop = 0 /\ ClampBottom = 3
  /\ Cardinality(RegionPixels) = 9
  /\ result.lighting.brightness.num > 0

\* C22: every pixel the sharpness and brightness computations read, the four
\* kernel neighbours included, lies inside the image, and every sample index
\* lies inside the pixel buffer, whatever the box
C22_ReadsWithinBuffer ==
  Succeeded =>
    \A c \in SharpnessReads(imageDataObj, faceBox) \cup BrightnessReads(imageDataObj, faceBox) :
      /\ 0 <= c[1] /\ c[1] < imageDataObj.width
      /\ 0 <= c[2] /\ c[2] < imageDataObj.height
      /\ \A i \in SampleIndexes(imageDataObj, c) : 0 <= i /\ i < Len(imageDataObj.data)

C22_Witness ==
  /\ Succeeded
  /\ faceBox # None
  /\ faceBox.x.num < 0 /\ faceBox.y.num < 0
  /\ Gt(Plus(faceBox.x, faceBox.width), imageDataObj.width)
  /\ Gt(Plus(faceBox.y, faceBox.height), imageDataObj.height)
  /\ imageDataObj.width = 4 /\ imageDataObj.height = 3
  /\ {<<0, 1>>, <<3, 1>>, <<1, 0>>, <<2, 2>>} \subseteq SharpnessReads(imageDataObj, faceBox)
  /\ <<3, 2>> \in BrightnessReads(imageDataObj, faceBox)

\* the attempts with a loadFromUri still pending
InFlight == { a \in 1..Len(loads) : \E n \in Nets : loads[a][n] = "pending" }

\* C23: at most one model load is in flight at any time; a caller arriving
\* while a load is in progress waits instead of starting a second one
C23_OneLoadInFlight == Cardinality(InFlight) <= 1

\* a step in which some caller calls loadModels
IsCall == nCalls' = nCalls + 1

\* C24: once a load has succeeded modelsLoaded stays true, and every later
\* loadModels call returns at once without starting another load
C24_LoadedOnce ==
  [][modelsLoaded =>
       /\ modelsLoaded'
       /\ Len(loads') = Len(loads)
       /\ ~modelsLoading'
       /\ \A c \in CallerIds :
            (IsCall /\ callers'[c] # callers[c]) => callers'[c].pc = "returned"]_faceApiVars

C24_Witness ==
  /\ modelsLoaded
  /\ nCalls = MaxLoadCalls
  /\ Len(loads) = 1
  /\ \E c \in CallerIds :
       callers[c].pc = "returned" /\ callers[c].attempt = 0 /\ ~callers[c].waited

\* C25: a loadModels call that returns normally, to the caller that started
\* the load or to one that waited for it, leaves the models loaded
C25_ReturnMeansLoaded ==
  \A c \in CallerIds : callers[c].pc = "returned" => modelsLoaded

\* C26: modelsLoading is set exactly while a caller awaits its load, so it
\* is cleared after every attempt; after a failed load a later call starts a
\* fresh load; and when every load settles, every waiting caller returns
C26_FlagClearedWaitersReturn ==
  /\ [](modelsLoading <=> \E c \in CallerIds : callers[c].pc = "awaiting")
  /\ [][(IsCall /\ ~modelsLoaded /\ ~modelsLoading) =>
          (Len(loads') = Len(loads) + 1 /\ modelsLoading')]_faceApiVars
  /\ \A c \in CallerIds : (callers[c].pc = "polling") ~> (callers[c].pc = "returned")

C26_Witness ==
  /\ ~modelsLoaded
  /\ modelsLoading
  /\ Len(loads) = 2
  /\ \E n \in Nets : loads[1][n] = "rejected"
  /\ \E c \in CallerIds : callers[c].pc = "returned" /\ callers[c].waited
  /\ \E c \in CallerIds : callers[c].pc = "awaiting" /\ callers[c].attempt = 2

\* C27: in EasyFaceCapture the i-th captured result carries the i-th step,
\* the number of captured results equals currentStep, and currentStep never
\* exceeds 5, also when captures overlap
C27_ResultsFollowSteps ==
  /\ Len(capturedResults) = currentStep
  /\ currentStep <= 5
  /\ \A i \in 1..Len(capturedResults) :
       capturedResults[i] = <<"Center", "Left", "Right", "Up", "Down">>[i]

\* C28: within one capture run onCaptureComplete is invoked at most once,
\* and with exactly the five results Center, Left, Right, Up, Down in order
C28_CompleteOnceWithFive ==
  /\ Len(completions) <= 1
  /\ \A k \in 1..Len(completions) :
       completions[k] = <<"Center", "Left", "Right", "Up", "Down">>

\* the component is idle with currentStep 0 and no captured results
IdleAndEmpty == status = "idle" /\ currentStep = 0 /\ capturedResults = <<>>

\* C29: resetCapture leaves the component idle with currentStep 0 and no
\* results, and that state is left only by starting the camera
C29_ResetStaysIdle ==
  [][IdleAndEmpty => (IdleAndEmpty' \/ status' = "camera_starting")]_easyVars

\* C30: when the flow is at 'completed', at least one image was saved and
\* the session row has status 'completed' with
\* successful_images + failed_images = total_images = the number of results;
\* when no image could be saved the flow ends in 'error'
C30_CompletedMeansSaved ==
  flowStep = "completed" =>
    /\ savedImages >= 1
    /\ session # None
    /\ session.status = "completed"
    /\ session.successful_images + session.failed_images = session.total_images
    /\ session.total_images = nResults

====
